---- MODULE Spec2Model ----
(***************************************************************************)
(* Model of forecast_script.py: the run orchestrator that walks the tables *)
(* of a ClickHouse database, (re)creates one forecast table per source     *)
(* table, forecasts every retained column with Prophet and bulk-inserts    *)
(* the reshaped rows.                                                      *)
(*                                                                         *)
(* Python strings are sequences of one-character strings, so that          *)
(* startswith, slicing ([7:]), substring tests (in), split and             *)
(* concatenation are computed the way the script computes them.  The       *)
(* database qualifier "<db_name>." is the same in every statement of a run *)
(* and is left out of the table names.                                     *)
(***************************************************************************)
EXTENDS Integers, Sequences, FiniteSets, TLC

\* ------------------------------------------------------------------ bounds
MaxTables == 2      \* longest explicit specific_tables list
MaxInterval == 1    \* the forecast horizon (days) is 0 or MaxInterval
MaxDate == 2        \* a non-empty source table holds the dates 1..MaxDate

\* ----------------------------------------------------------------- strings
S_bucket == <<"b", "u", "c", "k", "e", "t", "_">>
S_forecast == <<"b", "u", "c", "k", "e", "t", "_", "f", "o", "r", "e", "c", "a", "s", "t", "_">>
S_date == <<"d", "a", "t", "e">>
S_min == <<"_", "m", "i", "n">>
S_max == <<"_", "m", "a", "x">>
S_comma == ","
S_space == " "

T_bucket_sales == <<"b", "u", "c", "k", "e", "t", "_", "s", "a", "l", "e", "s">>
T_sales == <<"s", "a", "l", "e", "s">>
T_orders == <<"o", "r", "d", "e", "r", "s">>
T_bucket_forecast_sales == <<"b", "u", "c", "k", "e", "t", "_", "f", "o", "r", "e", "c", "a", "s", "t", "_", "s", "a", "l", "e", "s">>
T_bucket_forecast_orders == <<"b", "u", "c", "k", "e", "t", "_", "f", "o", "r", "e", "c", "a", "s", "t", "_", "o", "r", "d", "e", "r", "s">>

Ty_Date == <<"D", "a", "t", "e">>
Ty_Float64 == <<"F", "l", "o", "a", "t", "6", "4">>
Ty_Int32 == <<"I", "n", "t", "3", "2">>
Ty_FixedString == <<"F", "i", "x", "e", "d", "S", "t", "r", "i", "n", "g", "(", "8", ")">>

C_a == <<"a">>
C_b == <<"b">>
C_n == <<"n">>
C_old == <<"o", "l", "d">>

\* SKIP_DATA_TYPES (line 68)
SKIP_DATA_TYPES ==
    { <<"S", "t", "r", "i", "n", "g">>, <<"T", "e", "x", "t">>, <<"E", "n", "u", "m">>,
      <<"B", "o", "o", "l", "e", "a", "n">>, <<"B", "l", "o", "b">>,
      <<"B", "i", "n", "a", "r", "y">>, <<"A", "r", "r", "a", "y">>,
      <<"J", "S", "O", "N">>, <<"U", "U", "I", "D">> }

\* ------------------------------------------------- Python string operations
\* s.startswith(p)
startswith(s, p) == Len(s) >= Len(p) /\ SubSeq(s, 1, Len(p)) = p

\* s[k:] for k >= 0
slice_from(s, k) == IF Len(s) <= k THEN <<>> ELSE SubSeq(s, k + 1, Len(s))

\* needle in hay (substring test on str)
contains(hay, needle) ==
    \E p \in 0..(Len(hay) - Len(needle)) : SubSeq(hay, p + 1, p + Len(needle)) = needle

\* s.strip(): leading and trailing blanks removed
RECURSIVE lstrip(_)
lstrip(s) == IF s # <<>> /\ Head(s) = S_space THEN lstrip(Tail(s)) ELSE s
RECURSIVE rstrip(_)
rstrip(s) == IF s # <<>> /\ s[Len(s)] = S_space THEN rstrip(SubSeq(s, 1, Len(s) - 1)) ELSE s
strip(s) == rstrip(lstrip(s))

\* s.split(','): the pieces between the separators, empty pieces kept
RECURSIVE split_from(_, _, _)
split_from(s, cur, acc) ==
    IF s = <<>> THEN Append(acc, cur)
    ELSE IF Head(s) = S_comma THEN split_from(Tail(s), <<>>, Append(acc, cur))
    ELSE split_from(Tail(s), Append(cur, Head(s)), acc)
split(s) == split_from(s, <<>>, <<>>)

\* ', '-free join used to build the command-line argument from a list
RECURSIVE join(_)
join(l) ==
    IF l = <<>> THEN <<>>
    ELSE IF Len(l) = 1 THEN l[1]
    ELSE l[1] \o <<S_comma>> \o join(Tail(l))

\* ------------------------------------------------------------ the database
\* The source tables of the database and what DESCRIBE TABLE returns for
\* them: (name, type) of every column, the other five properties dropped.
SourceTables == {T_bucket_sales, T_sales, T_orders}

DescribeTable(t) ==
    IF t = T_bucket_sales
    THEN << <<S_date, Ty_Date>>, <<C_a, Ty_Float64>>, <<C_n, Ty_FixedString>>, <<C_b, Ty_Int32>> >>
    ELSE IF t = T_sales
    THEN << <<S_date, Ty_Date>>, <<C_b, Ty_Int32>> >>
    ELSE << <<S_date, Ty_Date>>, <<C_a, Ty_Float64>>, <<C_b, Ty_Float64>> >>

\* SHOW TABLES lists the tables in name order.
NameOrder == <<T_bucket_forecast_orders, T_bucket_forecast_sales, T_bucket_sales, T_orders, T_sales>>

\* ----------------------------------------------- get_columns_and_types
\* variant: the type must equal a skip type, not merely contain one
keep_column_exact(column, type_) == column # S_date /\ type_ \notin SKIP_DATA_TYPES

\* line 112: keep (column, type) unless the column is "date" or the type
\* contains a skip substring
keep_column(column, type_) ==
    column # S_date /\ ~(\E skip_type \in SKIP_DATA_TYPES : contains(type_, skip_type))

\* lines 109-117
RECURSIVE get_columns_and_types(_)
get_columns_and_types(columns_info) ==
    IF columns_info = <<>> THEN [columns |-> <<>>, types |-> <<>>]
    ELSE LET rest == get_columns_and_types(Tail(columns_info))
             column == Head(columns_info)[1]
             type_ == Head(columns_info)[2]
         IN  IF keep_column(column, type_)
             THEN [columns |-> <<column>> \o rest.columns, types |-> <<type_>> \o rest.types]
             ELSE rest

\* ------------------------------------------------ forecast table names
\* create_forecast_table, lines 121-124
create_forecast_table_name(table_name) ==
    IF startswith(strip(table_name), S_bucket)
    THEN S_forecast \o slice_from(table_name, 7)
    ELSE S_forecast \o table_name

\* forecast_table, line 156
forecast_table_name(table_name) == S_forecast \o slice_from(table_name, 7)

\* variant: only the bare prefix itself is skipped
skip_forecast_table_exact(table) == table = S_forecast

\* main, line 234
skip_forecast_table(table) == startswith(table, S_forecast)

\* main, line 231: `specific_tables and table not in specific_tables`
not_selected(specific, table) == specific # <<>> /\ ~contains(specific, table)

\* ------------------------------------------------ create_forecast_table
\* line 135 and lines 138-144: the column list of the CREATE TABLE statement
RECURSIVE columns_definitions(_, _)
columns_definitions(cols, typs) ==
    IF cols = <<>> \/ typs = <<>> THEN <<>>
    ELSE << <<Head(cols), Head(typs)>>,
            <<Head(cols) \o S_min, Head(typs)>>,
            <<Head(cols) \o S_max, Head(typs)>> >>
         \o columns_definitions(Tail(cols), Tail(typs))

create_schema(cols, typs) == << <<S_date, Ty_Date>> >> \o columns_definitions(cols, typs)

\* ------------------------------------------------------- forecasting
Range(f) == {f[x] : x \in DOMAIN f}
Max(S) == CHOOSE m \in S : \A x \in S : x <= m

\* the dates of a dataframe in ascending order
sorted(S) == [r \in 1..Cardinality(S) |-> CHOOSE x \in S : Cardinality({y \in S : y < x}) = r - 1]

\* Prophet.make_future_dataframe(periods): the history dates and the
\* `periods` days after the last of them (line 174).
make_future_dataframe(history, periods) ==
    history \cup {Max(history) + k : k \in 1..periods}

\* variant: the last observed date itself is kept
only_future_filter_inclusive(future, last, flag) ==
    IF flag THEN {ds \in future : ds >= last} ELSE future

\* lines 175-176
only_future_filter(future, last, flag) ==
    IF flag THEN {ds \in future : ds > last} ELSE future

\* Prophet's prediction for column number k on date ds: a point estimate
\* with a lower and an upper bound (yhat, yhat_lower, yhat_upper).
yhat(k, ds) == 100 * k + 10 * ds
yhat_lower(k, ds) == yhat(k, ds) - 1
yhat_upper(k, ds) == yhat(k, ds) + 1

\* d[k] = v on a dict
dict_set(d, k, v) == [x \in (DOMAIN d) \cup {k} |-> IF x = k THEN v ELSE d[x]]

\* lines 192-194: the three entries column col adds to the row of date ds
set_forecast(row, col, k, ds) ==
    dict_set(dict_set(dict_set(row, col, yhat(k, ds)),
                      col \o S_min, yhat_lower(k, ds)),
             col \o S_max, yhat_upper(k, ds))

\* lines 188-194: every row of export_data (dates, in order) merged into
\* forecast_data, a dict keyed by date kept here in insertion order: a date
\* seen for the first time gets a new row {'date': date} at the end, then
\* the row of each date takes the column's three entries
collect(fdata, col, k, dates) ==
    LET known == {fdata[r][S_date] : r \in 1..Len(fdata)}
        fresh == SelectSeq(dates, LAMBDA ds : ds \notin known)
        base == fdata \o [r \in 1..Len(fresh) |-> (S_date :> fresh[r])]
    IN  [r \in 1..Len(base) |->
            IF base[r][S_date] \in Range(dates)
            THEN set_forecast(base[r], col, k, base[r][S_date])
            ELSE base[r]]

\* ------------------------------------------------------- bulk insert
NULL == <<"NULL">>
str(v) == <<"num", v>>
quoted(ds) == <<"'", ds, "'">>

map_suffix(cols, suffix) == [k \in 1..Len(cols) |-> cols[k] \o suffix]

\* line 204: the column list of the INSERT statement
insert_header(cols) ==
    <<S_date>> \o cols \o map_suffix(cols, S_min) \o map_suffix(cols, S_max)

\* lines 208-210: one VALUES tuple
field(row, key) == IF key \in DOMAIN row THEN str(row[key]) ELSE NULL

values_tuple(row, cols) ==
    <<quoted(row[S_date])>>
    \o [k \in 1..Len(cols) |-> field(row, cols[k])]
    \o [k \in 1..Len(cols) |-> field(row, cols[k] \o S_min)]
    \o [k \in 1..Len(cols) |-> field(row, cols[k] \o S_max)]

\* variant: rows that lack a column are left out
query_values_complete_rows(fdata, cols) ==
    LET complete == SelectSeq(fdata, LAMBDA row : \A k \in 1..Len(cols) : cols[k] \in DOMAIN row)
    IN  [r \in 1..Len(complete) |-> values_tuple(complete[r], cols)]

\* lines 207-212
query_values(fdata, cols) == [r \in 1..Len(fdata) |-> values_tuple(fdata[r], cols)]

\* ------------------------------------------------------------- state
VARIABLES
    pc,                \* position of the run in main / forecast_table
    specific_tables,   \* the command-line argument, <<>> when absent
    only_future,
    interval,
    db,                \* the forecast tables of the database
    tables,            \* main: the table list being iterated
    idx,               \* main: position of the for loop in tables
    columns,
    types,
    exists,            \* create_forecast_table: result of EXISTS TABLE
    data,              \* forecast_table: dates of the selected source rows
    last_known_date,
    col_i,             \* forecast_table: position of the column loop
    forecast_data,
    successful_tables,
    new_tables,
    updated_tables,
    failed_tables,
    skipped_tables,
    summary,           \* the counts of the summary log line, <<>> before it
    exit_code,         \* -1 while running
    queries,           \* every statement sent to the client, in order
    fits               \* every Prophet fit/predict attempt, in order

params == <<specific_tables, only_future, interval>>
counters == <<successful_tables, new_tables, updated_tables, failed_tables, skipped_tables>>
locals == <<columns, types, exists, data, last_known_date, col_i, forecast_data>>
vars == <<pc, params, db, tables, idx, locals, counters, summary, exit_code, queries, fits>>

ForecastTables == {T_bucket_forecast_sales, T_bucket_forecast_orders}

Absent == [exists |-> FALSE, schema |-> <<>>, rows |-> {}]
Stale ==
    [exists |-> TRUE,
     schema |-> << <<S_date, Ty_Date>>, <<C_old, Ty_Float64>> >>,
     rows |-> { <<quoted(0), str(0)>> }]

TableExists(d, t) == t \in DOMAIN d /\ d[t].exists

\* the names an explicit list is drawn from: a bucket_ table, a table
\* without the prefix and a forecast table (the catalog listing adds orders)
SpecificNames == {T_bucket_sales, T_sales, T_bucket_forecast_sales}
SpecificLists == UNION {[1..n -> SpecificNames] : n \in 1..MaxTables}

\* one statement of the log: op, the table it names, the loop position,
\* its outcome, and for INSERT/SELECT the column list and the rows
Q(op, tbl, out, header, rows) ==
    [op |-> op, tbl |-> tbl, i |-> idx, out |-> out, header |-> header, rows |-> rows]

Init ==
    /\ pc = "connecting"
    /\ specific_tables \in {<<>>} \cup {join(l) : l \in SpecificLists}
    /\ only_future \in BOOLEAN
    /\ interval \in {0, MaxInterval}
    /\ db \in [ForecastTables -> {Absent, Stale}]
    /\ tables = <<>>
    /\ idx = 0
    /\ columns = <<>>
    /\ types = <<>>
    /\ exists = FALSE
    /\ data = {}
    /\ last_known_date = 0
    /\ col_i = 0
    /\ forecast_data = <<>>
    /\ successful_tables = <<>>
    /\ new_tables = <<>>
    /\ updated_tables = <<>>
    /\ failed_tables = <<>>
    /\ skipped_tables = <<>>
    /\ summary = <<>>
    /\ exit_code = -1
    /\ queries = <<>>
    /\ fits = <<>>

\* variant: the exception is swallowed and the for loop goes on
exception_swallowed ==
    /\ pc' = "loop"
    /\ exit_code' = exit_code

\* An exception nobody catches: log_exception logs it and the default hook
\* ends the process (lines 76-79); the for loop of main never resumes.
uncaught_exception ==
    /\ pc' = "aborted"
    /\ exit_code' = 1

\* a statement that raises: logged as sent, nothing else changes
Raises(op, tbl) ==
    /\ queries' = Append(queries, Q(op, tbl, "raised", <<>>, <<>>))
    /\ uncaught_exception
    /\ UNCHANGED <<params, db, tables, idx, locals, counters, summary, fits>>

\* ------------------------------------------- get_clickhouse_connection
\* lines 82-91
Connect ==
    /\ pc = "connecting"
    /\ pc' = "select_tables"
    /\ UNCHANGED <<params, db, tables, idx, locals, counters, summary, exit_code, queries, fits>>

\* lines 92-94
ConnectFail ==
    /\ pc = "connecting"
    /\ pc' = "exit1"
    /\ exit_code' = 1
    /\ UNCHANGED <<params, db, tables, idx, locals, counters, summary, queries, fits>>

\* --------------------------------------------------------------- main
\* lines 223-224
SplitTables ==
    /\ pc = "select_tables"
    /\ specific_tables # <<>>
    /\ tables' = split(specific_tables)
    /\ idx' = 1
    /\ pc' = "loop"
    /\ UNCHANGED <<params, db, locals, counters, summary, exit_code, queries, fits>>

\* lines 225-226 and get_tables, lines 97-101
GetTables ==
    /\ pc = "select_tables"
    /\ specific_tables = <<>>
    /\ LET listing == SelectSeq(NameOrder,
                         LAMBDA t : t \in SourceTables \/ TableExists(db, t))
       IN  /\ tables' = listing
           /\ queries' = Append(queries, Q("show_tables", <<>>, "ok", <<>>, <<>>))
    /\ idx' = 1
    /\ pc' = "loop"
    /\ UNCHANGED <<params, db, locals, counters, summary, exit_code, fits>>

GetTablesRaises ==
    /\ pc = "select_tables"
    /\ specific_tables = <<>>
    /\ Raises("show_tables", <<>>)

\* lines 229-238: one pass through the head of the for loop
LoopStep ==
    /\ pc = "loop"
    /\ idx <= Len(tables)
    /\ LET table == tables[idx]
       IN  IF not_selected(specific_tables, table)
           THEN /\ idx' = idx + 1
                /\ UNCHANGED <<pc, counters>>
           ELSE IF skip_forecast_table(table)
           THEN /\ skipped_tables' = Append(skipped_tables, table)
                /\ idx' = idx + 1
                /\ UNCHANGED <<pc, successful_tables, new_tables, updated_tables, failed_tables>>
           ELSE /\ pc' = "describe1"
                /\ UNCHANGED <<idx, counters>>
    /\ UNCHANGED <<params, db, tables, locals, summary, exit_code, queries, fits>>

\* lines 244-247, and the normal end of the process
Summarize ==
    /\ pc = "loop"
    /\ idx > Len(tables)
    /\ summary' = << Len(successful_tables) + Len(skipped_tables),
                     Len(new_tables),
                     Len(updated_tables),
                     Len(skipped_tables) - Len(failed_tables),
                     Len(failed_tables) >>
    /\ pc' = "done"
    /\ exit_code' = 0
    /\ UNCHANGED <<params, db, tables, idx, locals, counters, queries, fits>>

\* ------------------------------------------------ per-table statements
SourceData == { {}, 1..MaxDate }

\* DESCRIBE TABLE answered by the server (line 107-108) and filtered
DescribeOk(next_pc) ==
    /\ tables[idx] \in SourceTables
    /\ LET r == get_columns_and_types(DescribeTable(tables[idx]))
       IN  /\ columns' = r.columns
           /\ types' = r.types
    /\ queries' = Append(queries, Q("describe", tables[idx], "ok", <<>>, <<>>))
    /\ pc' = next_pc
    /\ UNCHANGED <<params, db, tables, idx, exists, data, last_known_date, col_i,
                   forecast_data, counters, summary, exit_code, fits>>

\* main, line 240
Describe1 == pc = "describe1" /\ DescribeOk("exists")

Describe1Raises == pc = "describe1" /\ Raises("describe", tables[idx])

\* create_forecast_table, lines 121-129
ExistsCheck ==
    /\ pc = "exists"
    /\ LET forecast_table_name_ == create_forecast_table_name(tables[idx])
       IN  /\ exists' = TableExists(db, forecast_table_name_)
           /\ queries' = Append(queries,
                 Q("exists", forecast_table_name_,
                   IF TableExists(db, forecast_table_name_) THEN "present" ELSE "absent",
                   <<>>, <<>>))
    /\ pc' = IF exists' THEN "drop" ELSE "create"
    /\ UNCHANGED <<params, db, tables, idx, columns, types, data, last_known_date, col_i,
                   forecast_data, counters, summary, exit_code, fits>>

ExistsCheckRaises ==
    pc = "exists" /\ Raises("exists", create_forecast_table_name(tables[idx]))

\* lines 130-132
Drop ==
    /\ pc = "drop"
    /\ LET forecast_table_name_ == create_forecast_table_name(tables[idx])
       IN  /\ TableExists(db, forecast_table_name_)
           /\ db' = [db EXCEPT ![forecast_table_name_] = Absent]
           /\ queries' = Append(queries, Q("drop", forecast_table_name_, "ok", <<>>, <<>>))
    /\ pc' = "create"
    /\ UNCHANGED <<params, tables, idx, locals, counters, summary, exit_code, fits>>

DropRaises ==
    pc = "drop" /\ Raises("drop", create_forecast_table_name(tables[idx]))

\* lines 135-151
Create ==
    /\ pc = "create"
    /\ LET forecast_table_name_ == create_forecast_table_name(tables[idx])
       IN  /\ forecast_table_name_ \in DOMAIN db
           /\ ~db[forecast_table_name_].exists
           /\ db' = [db EXCEPT ![forecast_table_name_] =
                        [exists |-> TRUE, schema |-> create_schema(columns, types), rows |-> {}]]
           /\ queries' = Append(queries, Q("create", forecast_table_name_, "ok", <<>>, <<>>))
    /\ IF ~exists
       THEN new_tables' = Append(new_tables, tables[idx]) /\ UNCHANGED updated_tables
       ELSE updated_tables' = Append(updated_tables, tables[idx]) /\ UNCHANGED new_tables
    /\ pc' = "describe2"
    /\ UNCHANGED <<params, tables, idx, locals, successful_tables, failed_tables,
                   skipped_tables, summary, exit_code, fits>>

CreateRaises ==
    pc = "create" /\ Raises("create", create_forecast_table_name(tables[idx]))

\* forecast_table, line 155
Describe2 == pc = "describe2" /\ DescribeOk("select")

Describe2Raises == pc = "describe2" /\ Raises("describe", tables[idx])

\* variant: the early return also records the table as successful
SelectEmpty_also_successful ==
    /\ pc = "select"
    /\ data' = {}
    /\ queries' = Append(queries, Q("select", tables[idx], "empty", <<S_date>> \o columns, <<>>))
    /\ failed_tables' = Append(failed_tables, tables[idx])
    /\ successful_tables' = Append(successful_tables, tables[idx])
    /\ idx' = idx + 1
    /\ pc' = "loop"
    /\ UNCHANGED <<params, db, tables, columns, types, exists, last_known_date, col_i,
                   forecast_data, new_tables, updated_tables,
                   skipped_tables, summary, exit_code, fits>>

\* lines 157-163: the source table has no rows
SelectEmpty ==
    /\ pc = "select"
    /\ data' = {}
    /\ queries' = Append(queries, Q("select", tables[idx], "empty", <<S_date>> \o columns, <<>>))
    /\ failed_tables' = Append(failed_tables, tables[idx])
    /\ idx' = idx + 1
    /\ pc' = "loop"
    /\ UNCHANGED <<params, db, tables, columns, types, exists, last_known_date, col_i,
                   forecast_data, successful_tables, new_tables, updated_tables,
                   skipped_tables, summary, exit_code, fits>>

\* lines 157-168: the source table has rows
SelectRows ==
    /\ pc = "select"
    /\ \E d \in SourceData \ {{}} :
          /\ data' = d
          /\ last_known_date' = Max(d)
          /\ queries' = Append(queries,
                 Q("select", tables[idx], "rows", <<S_date>> \o columns, sorted(d)))
    /\ forecast_data' = <<>>
    /\ col_i' = 1
    /\ pc' = IF columns = <<>> THEN "insert" ELSE "forecast"
    /\ UNCHANGED <<params, db, tables, idx, columns, types, exists, counters, summary,
                   exit_code, fits>>

SelectRaises == pc = "select" /\ Raises("select", tables[idx])

\* the column loop moves on (line 169)
next_column ==
    /\ col_i' = col_i + 1
    /\ pc' = IF col_i >= Len(columns) THEN "insert" ELSE "forecast"

\* lines 170-194: fit, predict and collect succeed for columns[col_i];
\* Prophet.predict refuses a dataframe without rows
ForecastColumn ==
    /\ pc = "forecast"
    /\ LET col == columns[col_i]
           future == only_future_filter(make_future_dataframe(data, interval),
                                        last_known_date, only_future)
       IN  /\ future # {}
           /\ forecast_data' = collect(forecast_data, col, col_i, sorted(future))
           /\ fits' = Append(fits, [i |-> idx, col |-> col, k |-> col_i, fed |-> future, ok |-> TRUE])
    /\ next_column
    /\ UNCHANGED <<params, db, tables, idx, columns, types, exists, data, last_known_date,
                   counters, summary, exit_code, queries>>

\* variant: the except clause sits outside the column loop
ForecastColumnRaises_break ==
    /\ pc = "forecast"
    /\ failed_tables' = Append(failed_tables, tables[idx])
    /\ fits' = Append(fits, [i |-> idx, col |-> columns[col_i], k |-> col_i, fed |-> {}, ok |-> FALSE])
    /\ col_i' = Len(columns) + 1
    /\ pc' = "insert"
    /\ UNCHANGED <<params, db, tables, idx, columns, types, exists, data, last_known_date,
                   forecast_data, successful_tables, new_tables, updated_tables,
                   skipped_tables, summary, exit_code, queries>>

\* variant: no except clause, the column's exception ends the process
ForecastColumnRaises_uncaught ==
    /\ pc = "forecast"
    /\ fits' = Append(fits, [i |-> idx, col |-> columns[col_i], k |-> col_i, fed |-> {}, ok |-> FALSE])
    /\ pc' = "aborted"
    /\ exit_code' = 1
    /\ UNCHANGED <<params, db, tables, idx, locals, counters, summary, queries>>

\* lines 196-198: fit or predict raises for columns[col_i]
ForecastColumnRaises ==
    /\ pc = "forecast"
    /\ failed_tables' = Append(failed_tables, tables[idx])
    /\ fits' = Append(fits, [i |-> idx, col |-> columns[col_i], k |-> col_i, fed |-> {}, ok |-> FALSE])
    /\ next_column
    /\ UNCHANGED <<params, db, tables, idx, columns, types, exists, data, last_known_date,
                   forecast_data, successful_tables, new_tables, updated_tables,
                   skipped_tables, summary, exit_code, queries>>

\* the server takes an INSERT when the table exists and has every named column
Accepts(d, tbl, header) ==
    /\ TableExists(d, tbl)
    /\ \A h \in 1..Len(header) : \E c \in 1..Len(d[tbl].schema) : d[tbl].schema[c][1] = header[h]

\* lines 201-217 with rows to insert
Insert ==
    /\ pc = "insert"
    /\ forecast_data # <<>>
    /\ LET forecast_table_name_ == forecast_table_name(tables[idx])
           header == insert_header(columns)
           rows == query_values(forecast_data, columns)
       IN  /\ Accepts(db, forecast_table_name_, header)
           /\ db' = [db EXCEPT ![forecast_table_name_].rows =
                        @ \cup {rows[r] : r \in 1..Len(rows)}]
           /\ queries' = Append(queries, Q("insert", forecast_table_name_, "ok", header, rows))
    /\ successful_tables' = Append(successful_tables, tables[idx])
    /\ idx' = idx + 1
    /\ pc' = "loop"
    /\ UNCHANGED <<params, tables, locals, new_tables, updated_tables, failed_tables,
                   skipped_tables, summary, exit_code, fits>>

\* line 213 raises
InsertRaises ==
    /\ pc = "insert"
    /\ forecast_data # <<>>
    /\ queries' = Append(queries,
          Q("insert", forecast_table_name(tables[idx]), "raised",
            insert_header(columns), query_values(forecast_data, columns)))
    /\ uncaught_exception
    /\ UNCHANGED <<params, db, tables, idx, locals, counters, summary, fits>>

\* lines 201 and 217: nothing was collected, no statement is sent
InsertNothing ==
    /\ pc = "insert"
    /\ forecast_data = <<>>
    /\ successful_tables' = Append(successful_tables, tables[idx])
    /\ idx' = idx + 1
    /\ pc' = "loop"
    /\ UNCHANGED <<params, db, tables, locals, new_tables, updated_tables, failed_tables,
                   skipped_tables, summary, exit_code, queries, fits>>

Next ==
    \/ ConnectFail
    \/ Connect
    \/ SplitTables
    \/ GetTablesRaises
    \/ GetTables
    \/ Summarize
    \/ LoopStep
    \/ Describe1Raises
    \/ Describe1
    \/ ExistsCheckRaises
    \/ ExistsCheck
    \/ DropRaises
    \/ Drop
    \/ CreateRaises
    \/ Create
    \/ Describe2Raises
    \/ Describe2
    \/ SelectRaises
    \/ SelectEmpty
    \/ SelectRows
    \/ ForecastColumnRaises
    \/ ForecastColumn
    \/ InsertNothing
    \/ InsertRaises
    \/ Insert

Spec == Init /\ [][Next]_vars

\* every step the interpreter can take, it takes
FairSpec == Spec /\ WF_vars(Next)

\* ===================================================================
\* Properties.  The helpers below restate the documented rules directly,
\* without the operators that model the script.
\* ===================================================================
Count(l, x) == Cardinality({n \in 1..Len(l) : l[n] = x})

HasBucketPrefix(T) == Len(T) >= 7 /\ \A k \in 1..7 : T[k] = S_bucket[k]
Stem(T) == IF HasBucketPrefix(T) THEN [k \in 1..(Len(T) - 7) |-> T[k + 7]] ELSE T
ExpectedForecastName(T) == S_forecast \o Stem(T)

IsForecastName(T) == Len(T) >= 16 /\ \A k \in 1..16 : T[k] = S_forecast[k]

\* positions of the table list whose loop iteration has begun / has ended
Begun(i) == i \in 1..Len(tables) /\ i <= idx
Ended(i) == i \in 1..Len(tables) /\ i < idx

QueriesOf(i) == {n \in 1..Len(queries) : queries[n].i = i}
FitsOf(i) == {n \in 1..Len(fits) : fits[n].i = i}

\* C1: every statement on the forecast table of source table T (EXISTS,
\* DROP, CREATE, INSERT) names bucket_forecast_<stem(T)>, where stem(T) is T
\* without a leading "bucket_" and T itself when it has none.
C1_OneForecastTable ==
    \A n \in 1..Len(queries) :
        queries[n].op \in {"exists", "drop", "create", "insert"}
            => queries[n].tbl = ExpectedForecastName(tables[queries[n].i])

\* C3: a table whose name starts with bucket_forecast_ is never inspected,
\* never gets DDL, a fit or an insert, whether it was listed explicitly or
\* enumerated; each pass over it appends it to skipped_tables and to no
\* other list.
C3_ForecastTablesSkipped ==
    \A i \in 1..Len(tables) :
        IsForecastName(tables[i]) =>
            /\ QueriesOf(i) = {}
            /\ FitsOf(i) = {}
            /\ tables[i] \notin Range(successful_tables) \cup Range(new_tables)
                                \cup Range(updated_tables) \cup Range(failed_tables)
            /\ Count(skipped_tables, tables[i])
                   = Cardinality({j \in 1..Len(tables) : j < idx /\ tables[j] = tables[i]})

\* C3 witness: a finished run with an explicit list that names a forecast
\* table next to a source table that was processed
C3_Witness ==
    /\ pc = "done"
    /\ specific_tables # <<>>
    /\ \E i \in 1..Len(tables) : IsForecastName(tables[i]) /\ tables[i] \in Range(skipped_tables)
    /\ successful_tables # <<>>

\* C10: no run-counter list holds a table name more often than the table
\* was processed, so len(failed_tables) counts tables, not columns.
C10_OncePerProcessing ==
    \A T \in Range(tables) :
        \A l \in {successful_tables, new_tables, updated_tables, failed_tables, skipped_tables} :
            Count(l, T) <= Cardinality({j \in 1..Len(tables) : Begun(j) /\ tables[j] = T})

\* ---------------------------------------------------------------------
\* what the documentation expects of one processed table
ExpectedColumns(T) ==
    LET kept == SelectSeq(DescribeTable(T),
                    LAMBDA c : c[1] # S_date /\ \A s \in SKIP_DATA_TYPES : ~contains(c[2], s))
    IN  [k \in 1..Len(kept) |-> kept[k][1]]

OkFits(i) == {n \in FitsOf(i) : fits[n].ok}
ForecastDates(i) == UNION {fits[n].fed : n \in OkFits(i)}
InsertsOf(i) == {n \in QueriesOf(i) : queries[n].op = "insert"}
SelectOf(i) == CHOOSE n \in QueriesOf(i) : queries[n].op = "select" /\ queries[n].out = "rows"
HistoryOf(i) == Range(queries[SelectOf(i)].rows)
LastObserved(i) == CHOOSE m \in HistoryOf(i) : \A x \in HistoryOf(i) : x <= m
EmptySource(i) == \E n \in QueriesOf(i) : queries[n].op = "select" /\ queries[n].out = "empty"

\* the column loop of position i is over
ColumnsDone(i) == Begun(i) /\ ~(idx = i /\ pc = "forecast")
\* position i got as far as the INSERT (sent, accepted or not)
PastInsert(i) == Ended(i) \/ (idx = i /\ pc = "aborted" /\ InsertsOf(i) # {})

Pos(header, name) == CHOOSE p \in 1..Len(header) : header[p] = name
RowDate(row) == row[1][2]

\* the field of column number k (estimate, _min, _max) on date d
ExpectedField(i, k, d, v) ==
    IF \E n \in OkFits(i) : fits[n].k = k /\ d \in fits[n].fed THEN str(v) ELSE NULL

ExpectedRow(i, d) ==
    LET n == Len(ExpectedColumns(tables[i]))
    IN  <<quoted(d)>>
        \o [k \in 1..n |-> ExpectedField(i, k, d, 100 * k + 10 * d)]
        \o [k \in 1..n |-> ExpectedField(i, k, d, 100 * k + 10 * d - 1)]
        \o [k \in 1..n |-> ExpectedField(i, k, d, 100 * k + 10 * d + 1)]

ExpectedHeader(T) ==
    LET cols == ExpectedColumns(T)
    IN  <<S_date>> \o cols
        \o [k \in 1..Len(cols) |-> cols[k] \o S_min]
        \o [k \in 1..Len(cols) |-> cols[k] \o S_max]

C4_OnlyFuture ==
    /\ \A n \in 1..Len(fits) :
          fits[n].ok =>
              IF only_future
              THEN \A d \in fits[n].fed : d > LastObserved(fits[n].i)
              ELSE HistoryOf(fits[n].i) \subseteq fits[n].fed
    /\ \A q \in 1..Len(queries) :
          queries[q].op = "insert" =>
              LET dates == {RowDate(queries[q].rows[r]) : r \in 1..Len(queries[q].rows)}
              IN  IF only_future
                  THEN \A d \in dates : d > LastObserved(queries[q].i)
                  ELSE HistoryOf(queries[q].i) \subseteq dates

\* C4 witness: only_future is set and rows were inserted
C4_Witness ==
    /\ only_future
    /\ \E q \in 1..Len(queries) :
          queries[q].op = "insert" /\ queries[q].out = "ok" /\ queries[q].rows # <<>>

\* C6: a table with at least one forecast point gets exactly one INSERT,
\* with one row per distinct forecast date, fields ordered date, estimates,
\* _min, _max in column order, each carrying the column's value for that
\* date or NULL; a table without points gets none.
C6_ReshapeAndInsert ==
    \A i \in 1..Len(tables) :
        /\ Cardinality(InsertsOf(i)) <= 1
        /\ InsertsOf(i) # {} => ForecastDates(i) # {}
        /\ (PastInsert(i) /\ ForecastDates(i) # {}) =>
              \E q \in InsertsOf(i) :
                  /\ queries[q].header = ExpectedHeader(tables[i])
                  /\ Len(queries[q].rows) = Cardinality(ForecastDates(i))
                  /\ Range(queries[q].rows) = {ExpectedRow(i, d) : d \in ForecastDates(i)}

\* C6 witness: an accepted INSERT whose rows hold NULL for one column
C6_Witness ==
    \E i \in 1..Len(tables) : \E q \in InsertsOf(i) :
        /\ queries[q].out = "ok"
        /\ Len(queries[q].rows) >= 2
        /\ \E n \in FitsOf(i) : ~fits[n].ok
        /\ \E r \in 1..Len(queries[q].rows) : NULL \in Range(queries[q].rows[r])

\* ---------------------------------------------------------------------
ExpectedSchema(T) ==
    LET kept == SelectSeq(DescribeTable(T),
                    LAMBDA c : c[1] # S_date /\ \A s \in SKIP_DATA_TYPES : ~contains(c[2], s))
        suffix(j) == IF j % 3 = 1 THEN <<>> ELSE IF j % 3 = 2 THEN S_min ELSE S_max
    IN  << <<S_date, Ty_Date>> >>
        \o [j \in 1..(3 * Len(kept)) |-> <<kept[(j + 2) \div 3][1] \o suffix(j), kept[(j + 2) \div 3][2]>>]

CreatesOf(i) == {n \in QueriesOf(i) : queries[n].op = "create" /\ queries[n].out = "ok"}
FoundAbsent(i) == \E n \in QueriesOf(i) : queries[n].op = "exists" /\ queries[n].out = "absent"
FoundPresent(i) == \E n \in QueriesOf(i) : queries[n].op = "exists" /\ queries[n].out = "present"
\* a later statement of the run changed the table of statement n
TouchedAfter(n) ==
    \E m \in (n + 1)..Len(queries) :
        queries[m].tbl = queries[n].tbl /\ queries[m].out = "ok"
            /\ queries[m].op \in {"drop", "create", "insert"}

\* C5 as stated: after a run that processed T, T's forecast table exists
\* with the schema derived from T's columns.
C5_SchemaAfterRun ==
    pc = "done" =>
        \A i \in 1..Len(tables) :
            CreatesOf(i) # {} =>
                /\ TableExists(db, ExpectedForecastName(tables[i]))
                /\ db[ExpectedForecastName(tables[i])].schema = ExpectedSchema(tables[i])

\* C5 amended: once T's forecast table is (re)created it exists with the
\* schema derived from T's columns, until a later table of the run that maps
\* to the same forecast table drops or recreates it; a table found absent is
\* recorded in new_tables, a table found present in updated_tables.
C5_SchemaUntilRecreated ==
    /\ \A i \in 1..Len(tables) : \A c \in CreatesOf(i) :
          \/ \E m \in (c + 1)..Len(queries) :
                 /\ queries[m].tbl = queries[c].tbl
                 /\ queries[m].out = "ok"
                 /\ queries[m].op \in {"drop", "create"}
          \/ /\ TableExists(db, queries[c].tbl)
             /\ db[queries[c].tbl].schema = ExpectedSchema(tables[i])
    /\ \A T \in Range(tables) :
          /\ Count(new_tables, T) =
                Cardinality({i \in 1..Len(tables) :
                                tables[i] = T /\ CreatesOf(i) # {} /\ FoundAbsent(i)})
          /\ Count(updated_tables, T) =
                Cardinality({i \in 1..Len(tables) :
                                tables[i] = T /\ CreatesOf(i) # {} /\ FoundPresent(i)})

\* C5 witness: the same table processed twice in a row, created the first
\* time and dropped and recreated the second time
C5_Witness ==
    /\ pc = "done"
    /\ \E i \in 1..(Len(tables) - 1) :
          /\ tables[i] = tables[i + 1]
          /\ CreatesOf(i) # {} /\ FoundAbsent(i)
          /\ CreatesOf(i + 1) # {} /\ FoundPresent(i + 1)
          /\ db[ExpectedForecastName(tables[i])].schema = ExpectedSchema(tables[i])

\* C7: a processed table whose SELECT returns no rows is appended to
\* failed_tables once and not to successful_tables, no column is fit and no
\* INSERT is sent, its forecast table stays as just created (existing, no
\* rows) and the for loop moves on to the next table.
C7_EmptySource ==
    /\ \A i \in 1..Len(tables) :
          EmptySource(i) =>
              /\ FitsOf(i) = {}
              /\ InsertsOf(i) = {}
              /\ Ended(i)
              /\ ~(pc = "aborted" /\ idx = i)
              /\ \A c \in CreatesOf(i) :
                    TouchedAfter(c)
                    \/ /\ TableExists(db, ExpectedForecastName(tables[i]))
                       /\ db[ExpectedForecastName(tables[i])].rows = {}
    /\ \A T \in Range(tables) :
          /\ Count(failed_tables, T) =
                Cardinality({i \in 1..Len(tables) : tables[i] = T /\ EmptySource(i)})
                + Cardinality({n \in 1..Len(fits) : ~fits[n].ok /\ tables[fits[n].i] = T})
          /\ Count(successful_tables, T) =
                Cardinality({i \in 1..Len(tables) :
                                tables[i] = T /\ Ended(i) /\ CreatesOf(i) # {} /\ ~EmptySource(i)})

\* C7 witness: an empty table followed by a table that was processed
C7_Witness ==
    /\ pc = "done"
    /\ \E i \in 1..(Len(tables) - 1) :
          /\ EmptySource(i)
          /\ CreatesOf(i + 1) # {}
          /\ tables[i] \in Range(failed_tables)

\* ---------------------------------------------------------------------
Raised(n) == queries[n].out = "raised"
Terminated == pc \in {"exit1", "done", "aborted"}

\* C8 as stated: once the connection is established the process never
\* ends with a non-zero exit code.
C8_ExitZeroOnceConnected ==
    pc \notin {"connecting", "exit1"} => exit_code \in {-1, 0}

\* C8 amended: a failed connection ends the run with exit code 1 before any
\* statement is sent; otherwise the run always terminates, and it reaches
\* the summary and exit code 0 with every selected non-forecast table
\* processed exactly when no table-level statement raised, however many
\* columns failed or tables were empty; a raising statement is the only way
\* to the non-zero exit.
C8_ExitBehaviour ==
    /\ [](pc = "exit1" => (exit_code = 1 /\ queries = <<>> /\ fits = <<>> /\ tables = <<>>))
    /\ [](pc = "done" =>
            /\ exit_code = 0
            /\ summary # <<>>
            /\ \A n \in 1..Len(queries) : ~Raised(n)
            /\ \A i \in 1..Len(tables) :
                  /\ Ended(i)
                  /\ ~IsForecastName(tables[i]) => CreatesOf(i) # {})
    /\ [](pc = "aborted" =>
            /\ exit_code = 1
            /\ queries # <<>>
            /\ Raised(Len(queries)))
    /\ [](exit_code # -1 <=> Terminated)
    /\ <>Terminated

\* C8 witness: a run that ends with exit code 0 although two columns of a
\* table raised and another table was empty
C8_Witness ==
    /\ pc = "done"
    /\ exit_code = 0
    /\ \E i \in 1..Len(tables) : Cardinality({n \in FitsOf(i) : ~fits[n].ok}) >= 2
    /\ \E i \in 1..Len(tables) : EmptySource(i)

\* C9: a statement of table number i that raises is the last thing the run
\* does: nothing is sent for a later table, no summary is logged, the exit
\* code is non-zero, and i's forecast table stays as the last completed
\* statement left it (absent when CREATE raised, still present when DROP
\* raised, existing without rows when a statement after CREATE raised).
C9_TableErrorAborts ==
    \A n \in 1..Len(queries) :
        Raised(n) =>
            LET i == queries[n].i
                F == ExpectedForecastName(tables[i])
            IN  /\ n = Len(queries)
                /\ pc = "aborted"
                /\ exit_code = 1
                /\ summary = <<>>
                /\ \A m \in 1..Len(queries) : queries[m].i <= i
                /\ \A m \in 1..Len(fits) : fits[m].i <= i
                /\ i >= 1 =>
                      /\ idx = i
                      /\ queries[n].op = "create" => ~TableExists(db, F)
                      /\ queries[n].op = "drop" => TableExists(db, F)
                      /\ CreatesOf(i) # {} =>
                            /\ TableExists(db, F)
                            /\ db[F].rows = {}
                            /\ db[F].schema = ExpectedSchema(tables[i])

\* C9 witness: CREATE raises after the DROP went through, with a table
\* still waiting in the list
C9_Witness ==
    /\ pc = "aborted"
    /\ idx < Len(tables)
    /\ queries[Len(queries)].op = "create"
    /\ \E n \in QueriesOf(idx) : queries[n].op = "drop" /\ queries[n].out = "ok"
    /\ ~TableExists(db, ExpectedForecastName(tables[idx]))

====
